---------------------------- MODULE Spec2Model ----------------------------
(***************************************************************************)
(* wav2mp3.c: a dispatcher thread (main) walks a directory and starts one  *)
(* detached encoder thread (threadFunction -> encode_wav2mp3) per ".wav"   *)
(* entry, throttled by the shared counter numthreads against numcores.     *)
(*                                                                         *)
(* Threads interleave at the granularity of the steps below.  A step that  *)
(* only touches data private to its thread (its own FILE handles, its      *)
(* lame flags, its buffers) is merged with its neighbours; every access to *)
(* numthreads and every acquisition of the mutex is a step of its own.     *)
(* main reads numthreads without the mutex (lines 385, 426): the read is   *)
(* modelled as yielding the value stored at that moment (an aligned int,   *)
(* re-read on every iteration because printf/sleep are opaque calls and    *)
(* the variable's address has escaped).                                    *)
(***************************************************************************)
EXTENDS Integers, Sequences, FiniteSets, TLC

\* ------------------------------------------------------------- bounds
\* Longest directory listing explored.
MaxEntries == 2
\* Largest source file explored, in fread blocks that return data.
MaxBlocks == 1

\* ------------------------------------------------- program constants
WAV_SIZE == 8192
MP3_SIZE == 8192
\* size_t arithmetic is modulo SizeMod.  The real modulus (2^32 or 2^64)
\* is outside TLC's integers; any modulus above MP3_SIZE behaves alike.
SizeMod == 1073741824
EXIT_SUCCESS == 0
EXIT_FAILURE == 1

\* ------------------------------------------------------------ strings
\* A C string is the sequence of its characters.
DotWav == <<".", "w", "a", "v">>
DotMp3 == <<".", "m", "p", "3">>

\* Names readdir may yield.  WavNames are the ones main accepts.
WavNames == { <<"a", ".", "w", "a", "v">>, <<"b", ".", "w", "a", "v">> }
OtherNames == { <<".">>, <<".", ".">>, <<"c", ".", "W", "A", "V">>,
                <<"n", ".", "t", "x", "t">>, <<"w", "a", "v">> }
Names == WavNames \cup OtherNames

\* readdir's NULL: the end of the directory.
NoEntry == <<>>

\* strrchr(s, c): position of the last c in s; 0 stands for NULL.
strrchr(s, c) ==
    LET hits == { i \in 1..Len(s) : s[i] = c }
    IN  IF hits = {} THEN 0 ELSE CHOOSE i \in hits : \A j \in hits : j <= i

\* The string that starts at position p of s (p a non-NULL pointer into s).
StrAt(s, p) == SubSeq(s, p, Len(s))

\* strcmp(a, b) == 0
StrEq(a, b) == a = b

\* argv[1] of the runs explored, and path after line 315-316.
Argv1 == <<"d">>

\* Lines 362-365: append "/" unless path already ends in it.
WithSlash(p) == IF p[Len(p)] # "/" THEN p \o <<"/">> ELSE p

\* Lines 367-369: wavfile_path = path ++ d_name.
WavPath(p, name) == p \o name

\* Lines 370-373: copy wavfile_path, overwrite from its last '.' with ".mp3".
Mp3Path(wavpath) ==
    LET e == strrchr(wavpath, ".")
    IN  SubSeq(wavpath, 1, e - 1) \o DotMp3

\* Every destination path a run can open.
Mp3Paths == { Mp3Path(WavPath(WithSlash(Argv1), n)) : n \in WavNames }

\* ------------------------------------------------------ input domains
\* argc values tried: no argument, one argument, two arguments.
Argcs == {1, 2, 3}

\* sysconf(_SC_NPROCESSORS_ONLN): -1 on error, else the number of cores.
CoreResults == {-1, 1, 2}

\* Frame counts of a source file: empty, or b-1 full blocks and one frame.
SourceSizes == {0} \cup { (b - 1) * WAV_SIZE + 1 : b \in 1..MaxBlocks }

\* lame_encode_buffer / lame_encode_flush results: an error code (lines
\* 223-226) or a number of bytes output.
CodecResults == {-1, 1}

\* A worker is named by the directory entry it was created for.
Workers == WavNames

\* tmpThread before any pthread_create.
NoThread == <<>>

\* ------------------------------------------------------------- state
VARIABLES
    argc,        \* main's argc
    seen,        \* the names readdir has returned so far
    entry,       \* d_name of the entry main is working on
    mainpc,      \* main's position
    path,        \* main's path string
    numcores,    \* line 303
    numthreads,  \* line 304, shared with every worker
    tmpThread,   \* line 297: the worker whose id it holds, or NoThread
    mutex,       \* Free, HeldByMain, HeldBy(w) or Destroyed
    wpc,         \* each worker's position
    left,        \* frames of the worker's source not yet read
    ops,         \* each worker's calls on its files, its encoder and the
                 \* counter so far, as <<call, result>>
    cancelreq,   \* workers with a cancellation request pending
    mp3,         \* destination files: whether each exists, and its bytes
    directory,   \* line 285: "unset" before opendir, then "NULL" or "open"
    incs         \* increments of numthreads so far

vars == << argc, seen, entry, mainpc, path, numcores, numthreads,
           tmpThread, mutex, wpc, left, ops, cancelreq, mp3, directory, incs >>

mainvars == << seen, entry, mainpc, path, numcores, tmpThread, directory >>
workervars == << wpc, left, ops, cancelreq, mp3 >>

\* Values of the mutex.
Free == <<"free">>
HeldByMain == <<"main">>
HeldBy(w) == <<"worker", w>>
Destroyed == <<"destroyed">>

\* A file that does not exist; a file with the bytes written to it, each
\* byte tagged with the call that produced it.
NoFile == [exists |-> FALSE, bytes |-> <<>>]
File(b) == [exists |-> TRUE, bytes |-> b]

\* A destination file left by an earlier run.
OldFile == File(<<"old">>)

\* The process has ended: main returned, or the process was killed.
Ended == mainpc \in {"exit_ok", "exit_fail", "crashed"}

\* The job main built for the entry named w (lines 355-382).
JobWav(w) == WavPath(WithSlash(Argv1), w)
JobMp3(w) == Mp3Path(JobWav(w))

Init ==
    /\ argc \in Argcs
    /\ seen = {}
    /\ entry = NoEntry
    /\ mainpc = "args"
    /\ path = <<>>
    /\ numcores = 0
    /\ numthreads = 0
    /\ tmpThread = NoThread
    /\ mutex = Free
    /\ wpc = [w \in Workers |-> "idle"]
    /\ left = [w \in Workers |-> 0]
    /\ ops = [w \in Workers |-> <<>>]
    /\ cancelreq = {}
    /\ mp3 \in [Mp3Paths -> {NoFile, OldFile}]
    /\ directory = "unset"
    /\ incs = 0

\* ---------------------------------------------------------------- main
\* The argument test with >= for ==.
ArgsOKAtLeast(n) == n >= 2

\* Line 308: the argument count is accepted.
ArgsOK(n) == n = 2

\* Lines 307-316.
Args ==
    /\ mainpc = "args"
    /\ IF ArgsOK(argc)
         THEN /\ path' = Argv1
              /\ mainpc' = "cores"
         ELSE /\ path' = path
              /\ mainpc' = "exit_fail"
    /\ UNCHANGED << argc, seen, entry, numcores, numthreads, tmpThread,
                    mutex, directory, incs >>
    /\ UNCHANGED workervars

\* The concurrency limit main uses, given the platform's answer (line 329).
CoresFrom(r) == r

\* Lines 323-331.
GetCores ==
    /\ mainpc = "cores"
    /\ \E r \in CoreResults : numcores' = CoresFrom(r)
    /\ mainpc' = "opendir"
    /\ UNCHANGED << argc, seen, entry, path, numthreads, tmpThread,
                    mutex, directory, incs >>
    /\ UNCHANGED workervars

\* Line 336: opendir returned NULL.
DirFailed(d) == d = "NULL"

\* Lines 335-346: opendir, and pthread_mutex_init when it succeeded.
OpenDir ==
    /\ mainpc = "opendir"
    /\ \E d \in {"NULL", "open"} :
          /\ directory' = d
          /\ mainpc' = IF DirFailed(d) THEN "exit_fail" ELSE "readdir"
    /\ UNCHANGED << argc, seen, entry, path, numcores, numthreads,
                    tmpThread, mutex, incs >>
    /\ UNCHANGED workervars

\* Line 353: the entry has the ".wav" extension.  e is strrchr's result,
\* not NULL.
HasWavExt(name, e) == StrEq(StrAt(name, e), DotWav)

\* Lines 350-382 and 417-422: readdir and the extension test.  readdir
\* returns NULL (main goes on to the drain loop) or an entry it has not
\* returned before.  strcmp on strrchr's NULL (a name with no '.') is
\* undefined: the process is killed, or the call compares unequal.
ReadDir ==
    /\ mainpc = "readdir"
    /\ \E name \in (Names \ seen) \cup {NoEntry} :
          IF name = NoEntry
            THEN /\ mainpc' = "drain"
                 /\ entry' = NoEntry
                 /\ UNCHANGED << seen, path >>
            ELSE LET e == strrchr(name, ".")
                 IN  /\ Cardinality(seen) < MaxEntries
                     /\ seen' = seen \cup {name}
                     /\ entry' = name
                     /\ IF e = 0
                          THEN /\ mainpc' \in {"crashed", "readdir"}
                               /\ path' = path
                          ELSE IF HasWavExt(name, e)
                                 THEN /\ path' = WithSlash(path)
                                      /\ mainpc' = "admit"
                                 ELSE /\ path' = path
                                      /\ mainpc' = "readdir"
    /\ UNCHANGED << argc, numcores, numthreads, tmpThread, mutex, directory,
                    incs >>
    /\ UNCHANGED workervars

\* The admission test with > for >=.
MustWaitOffByOne(n, cores) == n > cores

\* The admission test left out.
MustWaitNever(n, cores) == FALSE

\* Line 385: the admission loop keeps waiting.
MustWait(n, cores) == n >= cores

\* Line 385: one evaluation of the admission loop's condition.
Admit ==
    /\ mainpc = "admit"
    /\ mainpc' = IF MustWait(numthreads, numcores) THEN "admit_sleep" ELSE "create"
    /\ UNCHANGED << argc, seen, entry, path, numcores, numthreads, tmpThread,
                    mutex, directory, incs >>
    /\ UNCHANGED workervars

\* Lines 387-392: status line and sleep(1).
AdmitSleep ==
    /\ mainpc = "admit_sleep"
    /\ mainpc' = "admit"
    /\ UNCHANGED << argc, seen, entry, path, numcores, numthreads,
                    tmpThread, mutex, directory, incs >>
    /\ UNCHANGED workervars

\* A worker that has been created and has not terminated.
Live(w) == wpc[w] \notin {"idle", "Succeeded", "Failed", "Cancelled"}

\* Line 396, pthread_create succeeded: the worker for the entry starts.
CreateOK ==
    /\ mainpc = "create"
    /\ wpc' = [wpc EXCEPT ![entry] = "begin"]
    /\ tmpThread' = entry
    /\ mainpc' = "inc_lock"
    /\ UNCHANGED << argc, seen, entry, path, numcores, numthreads,
                    mutex, directory, incs >>
    /\ UNCHANGED << left, ops, cancelreq, mp3 >>

\* Lines 396-400, pthread_create failed.  tmpThread is then undefined: it
\* may still hold the id of the worker created before, and pthread_cancel
\* requests that worker's cancellation if it is live; on any other value
\* pthread_cancel is undefined and may kill the process or do nothing.
CreateFail ==
    /\ mainpc = "create"
    /\ \E outcome \in {"nothing", "cancel", "crash"} :
          /\ outcome = "cancel" => tmpThread # NoThread /\ Live(tmpThread)
          /\ cancelreq' = IF outcome = "cancel"
                            THEN cancelreq \cup {tmpThread} ELSE cancelreq
          /\ mainpc' = IF outcome = "crash" THEN "crashed" ELSE "readdir"
    /\ UNCHANGED << argc, seen, entry, path, numcores, numthreads,
                    tmpThread, mutex, directory, incs >>
    /\ UNCHANGED << wpc, left, ops, mp3 >>

\* Line 404: pthread_mutex_lock returns once the mutex is free.
IncLock ==
    /\ mainpc = "inc_lock"
    /\ mutex = Free
    /\ mutex' = HeldByMain
    /\ mainpc' = "inc_cs"
    /\ UNCHANGED << argc, seen, entry, path, numcores, numthreads,
                    tmpThread, directory, incs >>
    /\ UNCHANGED workervars

\* Lines 406-415: the increment, the unlock, and pthread_detach (whose
\* failure is only logged).
IncCS ==
    /\ mainpc = "inc_cs"
    /\ numthreads' = numthreads + 1
    /\ incs' = incs + 1
    /\ mutex' = Free
    /\ mainpc' = "readdir"
    /\ UNCHANGED << argc, seen, entry, path, numcores, tmpThread,
                    directory >>
    /\ UNCHANGED workervars

\* The drain test with 1 for 0.
MustDrainOffByOne(n) == n > 1

\* Line 426: the drain loop keeps waiting.
MustDrain(n) == n > 0

\* Line 426: one evaluation of the drain loop's condition.
Drain ==
    /\ mainpc = "drain"
    /\ mainpc' = IF MustDrain(numthreads) THEN "drain_sleep" ELSE "finish"
    /\ UNCHANGED << argc, seen, entry, path, numcores, numthreads, tmpThread,
                    mutex, directory, incs >>
    /\ UNCHANGED workervars

\* Lines 428-433: status line and sleep(1).
DrainSleep ==
    /\ mainpc = "drain_sleep"
    /\ mainpc' = "drain"
    /\ UNCHANGED << argc, seen, entry, path, numcores, numthreads,
                    tmpThread, mutex, directory, incs >>
    /\ UNCHANGED workervars

\* Lines 435-443: the final line, free(path), pthread_mutex_destroy (which
\* leaves a mutex that is held as it is).
Finish ==
    /\ mainpc = "finish"
    /\ mutex' = IF mutex = Free THEN Destroyed ELSE mutex
    /\ mainpc' = "return"
    /\ UNCHANGED << argc, seen, entry, path, numcores, numthreads,
                    tmpThread, directory, incs >>
    /\ UNCHANGED workervars

\* Line 447: main returns, which ends the process and every thread in it.
Return ==
    /\ mainpc = "return"
    /\ mainpc' = "exit_ok"
    /\ UNCHANGED << argc, seen, entry, path, numcores, numthreads,
                    tmpThread, mutex, directory, incs >>
    /\ UNCHANGED workervars

\* The exit status of the process, once it has one.
ExitStatus ==
    CASE mainpc = "exit_ok" -> EXIT_SUCCESS
      [] mainpc = "exit_fail" -> EXIT_FAILURE

MainStep ==
    \/ Args \/ GetCores \/ OpenDir \/ ReadDir \/ Admit \/ AdmitSleep
    \/ CreateOK \/ CreateFail \/ IncLock \/ IncCS \/ Drain \/ DrainSleep
    \/ Finish \/ Return

\* ------------------------------------------------------------- workers
\* The worker's call log with one more call.
Log(w, op, v) == [ops EXCEPT ![w] = Append(@, <<op, v>>)]
Log2(w, op1, v1, op2, v2) ==
    [ops EXCEPT ![w] = @ \o << <<op1, v1>>, <<op2, v2>> >>]

\* A critical section that only prints can be entered: the mutex is free,
\* or it is destroyed (pthread_mutex_lock fails and the print is skipped).
CanPrint == mutex \in {Free, Destroyed}

\* Lines 59-66 and 139-155: the BEGIN lines under the mutex, then
\* lame_init and lame_init_params, which may report an error.
Begin(w) ==
    /\ ~Ended
    /\ wpc[w] = "begin"
    /\ CanPrint
    /\ \E r \in {-1, 0} :
          wpc' = [wpc EXCEPT ![w] = IF r < 0 THEN "init_err" ELSE "open"]
    /\ UNCHANGED << left, ops, cancelreq, mp3 >>
    /\ UNCHANGED mainvars
    /\ UNCHANGED << argc, numthreads, mutex, incs >>

\* Lines 157-163: the error line, under the mutex; encoding goes on.
InitErr(w) ==
    /\ ~Ended
    /\ wpc[w] = "init_err"
    /\ CanPrint
    /\ wpc' = [wpc EXCEPT ![w] = "open"]
    /\ UNCHANGED << left, ops, cancelreq, mp3 >>
    /\ UNCHANGED mainvars
    /\ UNCHANGED << argc, numthreads, mutex, incs >>

\* The destination is opened before the source is known to open.
DestAfterOpenDestFirst(wavOK, mp3OK, f) == IF mp3OK THEN File(<<>>) ELSE f

\* Lines 167-190: the destination file f after the two fopen calls.  The
\* source is opened first and a NULL returns at line 177, before line 179;
\* fopen "wb" creates or truncates the file when it succeeds and leaves it
\* alone when it fails.
DestAfterOpen(wavOK, mp3OK, f) == IF wavOK /\ mp3OK THEN File(<<>>) ELSE f

\* Lines 166-195: fopen of the source, then of the destination, then the
\* buffers.  wavOK and mp3OK say whether the file can be opened; 1 logs a
\* stream returned, 0 a NULL.
Open(w) ==
    /\ ~Ended
    /\ wpc[w] = "open"
    /\ \E wavOK \in BOOLEAN, mp3OK \in BOOLEAN :
          /\ ops' = IF ~wavOK
                       THEN Log(w, "fopen_wav", 0)
                       ELSE Log2(w, "fopen_wav", 1,
                                 "fopen_mp3", IF mp3OK THEN 1 ELSE 0)
          /\ mp3' = [mp3 EXCEPT ![JobMp3(w)] = DestAfterOpen(wavOK, mp3OK, @)]
          /\ IF wavOK /\ mp3OK
               THEN /\ \E size \in SourceSizes :
                        left' = [left EXCEPT ![w] = size]
                    /\ wpc' = [wpc EXCEPT ![w] = "stream"]
               ELSE /\ left' = left
                    /\ wpc' = [wpc EXCEPT ![w] = "open_err"]
    /\ UNCHANGED cancelreq
    /\ UNCHANGED mainvars
    /\ UNCHANGED << argc, numthreads, mutex, incs >>

\* Lines 70-78: threadFunction after encode_wav2mp3 returned rc.
AfterEncode(rc) == IF rc # EXIT_SUCCESS THEN "Failed" ELSE "dec_lock"

\* Lines 169-178, 181-190, 243-252 and 70-74: the error line under the
\* mutex, return(EXIT_FAILURE), and the thread's exit.
ErrReturn(w) ==
    /\ ~Ended
    /\ wpc[w] \in {"open_err", "enc_err"}
    /\ CanPrint
    /\ wpc' = [wpc EXCEPT ![w] = AfterEncode(EXIT_FAILURE)]
    /\ cancelreq' = cancelreq \ {w}
    /\ UNCHANGED << left, ops, mp3 >>
    /\ UNCHANGED mainvars
    /\ UNCHANGED << argc, numthreads, mutex, incs >>

\* Line 202: fread's result on a source with n frames left.
Fread(n) == IF n < WAV_SIZE THEN n ELSE WAV_SIZE

\* Lines 124, 228, 237: an int result stored in the size_t byteswrote.
ToSizeT(r) == r % SizeMod

\* Line 241: the check for encoding errors, on the size_t.
ErrorSeen(byteswrote) == byteswrote < 0

\* The test of bytesread with >= for !=.
CallForNoFlush(n) == IF n >= 0 THEN "encode" ELSE "flush"

\* Lines 205-238: the codec call made after fread returned n frames.
CallFor(n) == IF n # 0 THEN "encode" ELSE "flush"

\* Line 257: the loop goes round again.
LoopAgain(bytesread) == bytesread # 0

\* n bytes produced by the call named tag.
Bytes(tag, n) == [i \in 1..n |-> tag]

\* Lines 198-277, one iteration of the loop: fread; lame_encode_buffer on
\* the frames read or lame_encode_flush on none; the error check; fwrite;
\* and after the last iteration lame_close, free, fclose and
\* return(EXIT_SUCCESS).  fwrite of more than MP3_SIZE bytes reads past
\* mp3_buffer, which is undefined: the process is killed, or bytes that no
\* call produced reach the file.
Stream(w) ==
    /\ ~Ended
    /\ wpc[w] = "stream"
    /\ \E r \in CodecResults, ub \in {"crash", "junk"} :
          LET n == Fread(left[w])
              call == CallFor(n)
              byteswrote == ToSizeT(r)
              overrun == byteswrote > MP3_SIZE
              logged == ops[w] \o << <<"fread", n>>, <<call, r>> >>
          IN  /\ left' = [left EXCEPT ![w] = @ - n]
              /\ IF ErrorSeen(byteswrote)
                   THEN /\ ops' = [ops EXCEPT ![w] = logged]
                        /\ wpc' = [wpc EXCEPT ![w] = "enc_err"]
                        /\ UNCHANGED << mp3, mainpc >>
                   ELSE IF overrun /\ ub = "crash"
                   THEN /\ ops' = [ops EXCEPT ![w] = logged]
                        /\ mainpc' = "crashed"
                        /\ UNCHANGED << mp3, wpc >>
                   ELSE /\ mp3' = [mp3 EXCEPT ![JobMp3(w)] =
                                File(@.bytes \o
                                     (IF overrun THEN <<"junk">>
                                                 ELSE Bytes(call, byteswrote)))]
                        /\ ops' = [ops EXCEPT ![w] =
                                logged \o << <<"fwrite", byteswrote>> >>
                                       \o (IF LoopAgain(n) THEN <<>>
                                           ELSE << <<"lame_close", 0>> >>)]
                        /\ wpc' = [wpc EXCEPT ![w] =
                                IF LoopAgain(n) THEN "stream"
                                         ELSE AfterEncode(EXIT_SUCCESS)]
                        /\ UNCHANGED mainpc
    /\ UNCHANGED cancelreq
    /\ UNCHANGED << seen, entry, path, numcores, tmpThread, directory >>
    /\ UNCHANGED << argc, numthreads, mutex, incs >>

\* Line 78: pthread_mutex_lock returns 0 once the mutex is free; on a
\* destroyed mutex it fails and the block is skipped.
DecLock(w) ==
    /\ ~Ended
    /\ wpc[w] = "dec_lock"
    /\ mutex \in {Free, Destroyed}
    /\ IF mutex = Free
         THEN /\ mutex' = HeldBy(w)
              /\ wpc' = [wpc EXCEPT ![w] = "dec_cs"]
         ELSE /\ mutex' = mutex
              /\ wpc' = [wpc EXCEPT ![w] = "end"]
    /\ UNCHANGED << left, ops, cancelreq, mp3 >>
    /\ UNCHANGED mainvars
    /\ UNCHANGED << argc, numthreads, incs >>

\* The test of the counter left out.
MayDecrementAlways(n) == TRUE

\* Line 80: the counter may be decremented.
MayDecrement(n) == n > 0

\* Lines 80-89: the decrement, or the error line, and the unlock.  The
\* error line's fprintf is a cancellation point: a worker with a request
\* pending may end there, with the mutex still held.
DecCS(w) ==
    /\ ~Ended
    /\ wpc[w] = "dec_cs"
    /\ IF MayDecrement(numthreads)
         THEN /\ numthreads' = numthreads - 1
              /\ ops' = Log(w, "decrement", 1)
              /\ mutex' = Free
              /\ wpc' = [wpc EXCEPT ![w] = "end"]
              /\ UNCHANGED cancelreq
         ELSE /\ numthreads' = numthreads
              /\ ops' = Log(w, "decrement", 0)
              /\ \E cancelled \in {b \in BOOLEAN : b => w \in cancelreq} :
                    /\ mutex' = IF cancelled THEN mutex ELSE Free
                    /\ wpc' = [wpc EXCEPT ![w] =
                                 IF cancelled THEN "Cancelled" ELSE "end"]
                    /\ cancelreq' = IF cancelled THEN cancelreq \ {w}
                                                 ELSE cancelreq
    /\ UNCHANGED << left, mp3 >>
    /\ UNCHANGED mainvars
    /\ UNCHANGED << argc, incs >>

\* Lines 93-110: the END lines under the mutex, the frees, pthread_exit.
End(w) ==
    /\ ~Ended
    /\ wpc[w] = "end"
    /\ CanPrint
    /\ wpc' = [wpc EXCEPT ![w] = "Succeeded"]
    /\ cancelreq' = cancelreq \ {w}
    /\ UNCHANGED << left, ops, mp3 >>
    /\ UNCHANGED mainvars
    /\ UNCHANGED << argc, numthreads, mutex, incs >>

\* Positions whose next call is a cancellation point (stdio), outside the
\* counter's critical section.
CancelPoints == {"begin", "init_err", "open", "open_err", "stream", "end"}

\* A pending cancellation request is acted on: the thread ends there.
Cancel(w) ==
    /\ ~Ended
    /\ w \in cancelreq
    /\ wpc[w] \in CancelPoints
    /\ wpc' = [wpc EXCEPT ![w] = "Cancelled"]
    /\ cancelreq' = cancelreq \ {w}
    /\ UNCHANGED << left, ops, mp3 >>
    /\ UNCHANGED mainvars
    /\ UNCHANGED << argc, numthreads, mutex, incs >>

WorkerStep(w) ==
    \/ Begin(w) \/ InitErr(w) \/ Open(w) \/ ErrReturn(w)
    \/ Stream(w) \/ DecLock(w) \/ DecCS(w) \/ End(w) \/ Cancel(w)

\* ------------------------------------------------------ specifications
Next == MainStep \/ \E w \in Workers : WorkerStep(w)

Spec == Init /\ [][Next]_vars

\* The scheduler lets every thread that can run take its next step.
FairSpec ==
    /\ Spec
    /\ WF_vars(MainStep)
    /\ \A w \in Workers : WF_vars(WorkerStep(w))

\* --------------------------------------------------------- properties
\* How many times worker w's log holds the call c with result v.
Count(w, c, v) ==
    Cardinality({ i \in 1..Len(ops[w]) : ops[w][i] = <<c, v>> })

\* How many times worker w's log holds the call c, with any result.
Calls(w, c) ==
    Cardinality({ i \in 1..Len(ops[w]) : ops[w][i][1] = c })

\* Decrements of numthreads performed so far.
RECURSIVE Sum(_, _)
Sum(f, S) ==
    IF S = {} THEN 0
    ELSE LET x == CHOOSE y \in S : TRUE IN f[x] + Sum(f, S \ {x})
Decs == Sum([w \in Workers |-> Count(w, "decrement", 1)], Workers)

\* main has left the drain loop.
Drained == mainpc \in {"finish", "return", "exit_ok"}

\* Workers created and not yet at their decrement step or terminated.
InFlight ==
    { w \in Workers :
        wpc[w] \in {"begin", "init_err", "open", "open_err", "enc_err",
                    "stream"} }

\* C1: whenever the limit numcores is at least 1, the shared counter
\* numthreads is at most numcores, in every reachable state; main's reads of
\* the counter in the admission and drain loops yield the counter's value
\* of that moment, so no value it reads exceeds the limit either.
C1_CounterAtMostLimit == numcores >= 1 => numthreads <= numcores

\* main has just read numthreads = numcores in the admission loop and
\* sleeps, with a worker still encoding.
C1_Witness ==
    /\ mainpc = "admit_sleep"
    /\ numcores >= 1
    /\ numthreads = numcores
    /\ \E w \in Workers : wpc[w] = "stream"

\* C2: once main has left the drain loop, the increments main performed
\* equal the decrements the workers performed and the counter is 0, in
\* that state and in every later one.
C2_DrainedBalanced == Drained => numthreads = 0 /\ incs = Decs

\* main has returned after two workers were counted in and out.
C2_Witness == mainpc = "exit_ok" /\ incs = 2 /\ Decs = 2

\* A state of a run in which something the precondition of C3 excludes has
\* happened: a bad argument count, a directory that did not open, a limit
\* below 1, a killed process, a worker that was not created, was cancelled
\* or is on an error path, or a codec call that reported an error.
C3_Excluded ==
    \/ mainpc \in {"exit_fail", "crashed"}
    \/ mainpc \notin {"args", "cores"} /\ numcores < 1
    \/ \E w \in Workers :
          \/ wpc[w] \in {"init_err", "open_err", "enc_err", "Failed",
                         "Cancelled"}
          \/ w \in cancelreq
          \/ Count(w, "encode", -1) + Count(w, "flush", -1) > 0
          \/ /\ w \in seen
             /\ wpc[w] = "idle"
             /\ ~(entry = w /\ mainpc \in {"admit", "admit_sleep", "create"})

\* C3: in a run where the directory opens, the limit is at least 1, every
\* worker is created and every job encodes without error, main eventually
\* leaves the drain loop with the counter at 0 and exits with success
\* status, under fair scheduling of all threads.
C3_CleanRunExits ==
    <>(C3_Excluded \/ (mainpc = "exit_ok" /\ numthreads = 0))

\* A state of a run in which something other than a source that cannot be
\* opened has gone wrong, or a worker found the counter at 0.
C4_Excluded ==
    \/ mainpc \in {"exit_fail", "crashed"}
    \/ mainpc \notin {"args", "cores"} /\ numcores < 1
    \/ \E w \in Workers :
          \/ wpc[w] \in {"init_err", "enc_err", "Cancelled"}
          \/ w \in cancelreq
          \/ Count(w, "fopen_mp3", 0) > 0
          \/ Count(w, "encode", -1) + Count(w, "flush", -1) > 0
          \/ Count(w, "decrement", 0) > 0
          \/ /\ w \in seen
             /\ wpc[w] = "idle"
             /\ ~(entry = w /\ mainpc \in {"admit", "admit_sleep", "create"})

\* C4: in a run where nothing goes wrong except that sources cannot be
\* opened, main eventually leaves the drain loop with every slot of the
\* counter released and exits with success status, under fair scheduling;
\* by then each job whose source could not be opened has ended in Failed
\* and every other job has encoded its file and passed its decrement.
C4_SourceFailureIsolated ==
    <>( \/ C4_Excluded
        \/ /\ mainpc = "exit_ok"
           /\ numthreads = 0
           /\ \A w \in Workers :
                 wpc[w] # "idle" =>
                    IF Count(w, "fopen_wav", 0) > 0
                      THEN wpc[w] = "Failed"
                      ELSE wpc[w] \in {"end", "Succeeded"} )

\* The name ends in the final segment ".wav".
EndsInDotWav(name) ==
    /\ Len(name) >= 4
    /\ SubSeq(name, Len(name) - 3, Len(name)) = DotWav

\* C5: when readdir returns an entry whose name does not end in ".wav",
\* main builds no job, creates no worker, leaves the counter and every
\* destination file as they are, and goes on to the next entry.
C5_NonWavSkipped ==
    [][ (mainpc = "readdir" /\ seen' # seen /\ ~EndsInDotWav(entry'))
          => /\ mainpc' = "readdir"
             /\ wpc' = wpc
             /\ numthreads' = numthreads
             /\ mp3' = mp3 ]_vars

\* C6: the limit the admission loop compares the counter with is at
\* least 1, whatever the processor-count query returned.
C6_LimitAtLeastOne ==
    mainpc \in {"admit", "admit_sleep", "create"} => numcores >= 1

\* Worker w opened both files and its first fread returned 0 frames.
EmptySource(w) ==
    /\ Len(ops[w]) >= 3
    /\ SubSeq(ops[w], 1, 3) =
          << <<"fopen_wav", 1>>, <<"fopen_mp3", 1>>, <<"fread", 0>> >>

\* C7: a worker whose source holds 0 frames never calls lame_encode_buffer,
\* calls lame_encode_flush exactly once, right after its first fread, and
\* reads no more; when the flush reports no error, the destination holds
\* the flush output and nothing else, the encoder is closed, and the
\* worker goes on to the success path: it never ends in Failed, and when
\* it exits by itself it has ended in Succeeded.
C7_EmptySourceFlushOnly ==
    \A w \in Workers :
       EmptySource(w) =>
          /\ Calls(w, "encode") = 0
          /\ Calls(w, "flush") = 1
          /\ Calls(w, "fread") = 1
          /\ ops[w][4][1] = "flush"
          /\ ops[w][4][2] >= 0 =>
                /\ mp3[JobMp3(w)] = File(Bytes("flush", ops[w][4][2]))
                /\ Calls(w, "fwrite") = 1
                /\ Calls(w, "lame_close") = 1
                /\ wpc[w] \in {"dec_lock", "dec_cs", "end", "Succeeded",
                               "Cancelled"}

\* A worker with an empty source has ended in Succeeded, its flush output
\* in the destination file.
C7_Witness ==
    \E w \in Workers :
       /\ EmptySource(w)
       /\ wpc[w] = "Succeeded"
       /\ mp3[JobMp3(w)] = File(<<"flush">>)

\* C8: with an argument count other than one (argc # 2) the process exits
\* with failure status and opendir is never called; when opendir fails the
\* process exits with failure status, no worker has been created and the
\* counter has never been incremented.
C8_FatalBeforeWork ==
    /\ argc # 2 => /\ directory = "unset"
                   /\ mainpc \in {"args", "exit_fail"}
    /\ directory = "NULL" => mainpc = "exit_fail"
    /\ mainpc = "exit_fail" =>
          /\ ExitStatus = EXIT_FAILURE
          /\ \A w \in Workers : wpc[w] = "idle"
          /\ incs = 0
          /\ numthreads = 0

\* The process has exited with failure status because opendir failed.
C8_Witness == mainpc = "exit_fail" /\ directory = "NULL" /\ argc = 2

\* C9: a worker that has terminated, in Succeeded or in Failed, has
\* decremented the counter exactly once.
C9_DecrementOnEveryExit ==
    \A w \in Workers :
       wpc[w] \in {"Succeeded", "Failed"} => Count(w, "decrement", 1) = 1

\* C10: whenever the limit is at least 1, at most numcores workers have
\* been created and have neither reached their decrement step nor
\* terminated.
C10_InFlightAtMostLimit ==
    numcores >= 1 => Cardinality(InFlight) <= numcores

\* With a limit of 1, a worker is encoding while main, having counted it,
\* waits in the admission loop to create the next one.
C10_Witness ==
    /\ numcores = 1
    /\ mainpc = "admit_sleep"
    /\ Cardinality(InFlight) = 1
    /\ numthreads = 1

\* A state of a run in which something other than a failed launch has gone
\* wrong: a bad argument count, a directory that did not open, a limit
\* below 1, a killed process, a worker on an error path, a codec call that
\* reported an error, or a worker that found the counter at 0.
C11_Excluded ==
    \/ mainpc \in {"exit_fail", "crashed"}
    \/ mainpc \notin {"args", "cores"} /\ numcores < 1
    \/ \E w \in Workers :
          \/ wpc[w] \in {"init_err", "open_err", "enc_err", "Failed"}
          \/ Count(w, "encode", -1) + Count(w, "flush", -1) > 0
          \/ Count(w, "decrement", 0) > 0

\* C11: in a run where nothing goes wrong except that pthread_create
\* fails for some entries and the process is not killed, main eventually
\* leaves the drain loop with the counter at 0 and exits, under fair
\* scheduling: a failed launch does not keep the counter from reaching 0.
C11_FailedLaunchHarmless ==
    <>(C11_Excluded \/ (mainpc = "exit_ok" /\ numthreads = 0))

\* C12: a worker whose lame_encode_buffer or lame_encode_flush call
\* returned a negative result makes no call after it (no fwrite, no
\* further fread or codec call) and is on its way to Failed or has ended
\* there, with the process still running.
C12_ErrorResultDetected ==
    \A w \in Workers :
       \A i \in 1..Len(ops[w]) :
          (ops[w][i][1] \in {"encode", "flush"} /\ ops[w][i][2] < 0) =>
             /\ i = Len(ops[w])
             /\ wpc[w] \in {"enc_err", "Failed"}
             /\ mainpc # "crashed"

\* C13: a worker that has terminated by itself, in Succeeded or in Failed,
\* has closed the encoder it initialised at line 140 exactly once.
C13_EncoderClosedOnExit ==
    \A w \in Workers :
       wpc[w] \in {"Succeeded", "Failed"} => Calls(w, "lame_close") = 1

\* C14: a worker whose lame_init_params reported an error, or one of whose
\* fopen calls returned NULL, goes from there straight to Failed (or is
\* cancelled) and makes no call on its files or its encoder on the way.
C14_OpeningFailureFails ==
    [][ \A w \in Workers :
           (wpc[w] \in {"init_err", "open_err"} /\ wpc'[w] # wpc[w]) =>
              /\ wpc'[w] \in {"Failed", "Cancelled"}
              /\ ops'[w] = ops[w] ]_vars

\* Worker w's log holds the call c at position i.
IsCall(w, i, c) == ops[w][i][1] = c

\* C15: a worker that has reached Succeeded called lame_encode_flush
\* exactly once, right after a fread that returned 0 frames, with every
\* fread and lame_encode_buffer call before it; and a worker one of whose
\* lame_encode_buffer calls reported an error never calls
\* lame_encode_flush.
C15_FlushOnceAtEnd ==
    \A w \in Workers :
       /\ wpc[w] = "Succeeded" =>
             /\ Calls(w, "flush") = 1
             /\ \A i \in 1..Len(ops[w]) :
                   IsCall(w, i, "flush") =>
                      /\ i > 1
                      /\ ops[w][i - 1] = <<"fread", 0>>
                      /\ \A j \in 1..Len(ops[w]) :
                            (IsCall(w, j, "fread") \/ IsCall(w, j, "encode"))
                               => j < i
       /\ (\E i \in 1..Len(ops[w]) :
              IsCall(w, i, "encode") /\ ops[w][i][2] < 0)
             => Calls(w, "flush") = 0

\* C16: the counter is never negative and always equals the increments
\* less the decrements performed; a worker that found it at 0 left it
\* there, made that one attempt only, and went on to its END lines (unless
\* a cancellation main requested ends it first).
C16_CounterNeverNegative ==
    /\ numthreads >= 0
    /\ numthreads = incs - Decs
    /\ \A w \in Workers :
          Count(w, "decrement", 0) > 0 =>
             /\ Calls(w, "decrement") = 1
             /\ wpc[w] \in {"end", "Succeeded", "Cancelled"}

\* A worker has found the counter at 0, left it at 0 and gone on.
C16_Witness ==
    \E w \in Workers :
       /\ Count(w, "decrement", 0) = 1
       /\ numthreads = 0
       /\ wpc[w] = "end"
       /\ mainpc = "inc_lock"

\* C17: every step that reads or writes the counter is taken by a thread
\* that holds the mutex: main's tests in the admission loop and the drain
\* loop, main's increment, and each worker's test and decrement.
C17_CounterUnderLock ==
    [][ /\ (/\ mainpc \in {"admit", "drain", "inc_cs"}
            /\ mainpc' \notin {mainpc, "crashed"}) => mutex = HeldByMain
        /\ \A w \in Workers :
              (wpc[w] = "dec_cs" /\ wpc'[w] # wpc[w]) => mutex = HeldBy(w)
      ]_vars

\* C18: no worker reaches its test of the counter before main has
\* incremented the counter for it, and no worker finds the counter at 0.
C18_DecrementAfterIncrement ==
    \A w \in Workers :
       /\ (wpc[w] = "dec_cs" \/ Calls(w, "decrement") > 0) =>
             ~(tmpThread = w /\ mainpc \in {"inc_lock", "inc_cs"})
       /\ Count(w, "decrement", 0) = 0

\* C19: once main has destroyed the mutex (line 443), every worker it
\* created has terminated.
C19_WorkersDoneBeforeExit ==
    mainpc \in {"return", "exit_ok"} => \A w \in Workers : ~Live(w)

\* C20: from the moment a worker's fopen of its source has returned NULL,
\* the worker never calls fopen on its destination and the destination
\* file stays as it was: absent if it was absent, with its old bytes if it
\* existed.
C20_DestinationUntouched ==
    [][ \A w \in Workers :
           Count(w, "fopen_wav", 0)' > 0 =>
              /\ mp3'[JobMp3(w)] = mp3[JobMp3(w)]
              /\ Calls(w, "fopen_mp3")' = 0 ]_vars

\* A worker whose source could not be opened has ended, and the file an
\* earlier run left at its destination is still there.
C20_Witness ==
    \E w \in Workers :
       /\ Count(w, "fopen_wav", 0) = 1
       /\ wpc[w] = "Failed"
       /\ mp3[JobMp3(w)] = OldFile

====
